---- MODULE Spec2Model ----
(***************************************************************************)
(* Two-tier build cache of lage: RemoteFallbackCacheProvider (the fallback *)
(* orchestrator with its two static LRU hit tables) and                    *)
(* CloudflareR2CacheProvider (the S3-compatible remote tier with its       *)
(* TimeoutStream guard).                                                   *)
(*                                                                         *)
(* Async functions are cut at their await points: one action runs the code *)
(* from one suspension point to the next, as the JavaScript event loop     *)
(* does.  The collaborating providers and the object store are the         *)
(* environment: their answers are chosen with \E.                          *)
(***************************************************************************)
EXTENDS Naturals, Integers, Sequences, FiniteSets, TLC

VARIABLES
    options,      \* per orchestrator instance: the options given to the constructor
    hitsMax,      \* `max` of the two static LRUCache tables
    localHits,    \* RemoteFallbackCacheProvider.localHits, least recently used first
    remoteHits,   \* RemoteFallbackCacheProvider.remoteHits, least recently used first
    calls,        \* the orchestrator calls in progress or completed, per caller
    script,       \* number of fetches issued so far by the sequential eviction scenario
    maxSize,      \* CloudflareR2CacheProviderOptions.maxSize (0: undefined, falsy)
    store,        \* the bucket: per key the object stored, or NoObject
    r2calls,      \* the CloudflareR2CacheProvider calls in progress or completed, per caller
    wrapper       \* the CloudflareR2CacheStorageWrapper: its cwd, its target, the target it passed last

orchVars == <<options, hitsMax, localHits, remoteHits, calls, script>>
r2Vars == <<maxSize, store, r2calls, wrapper>>
vars == <<orchVars, r2Vars>>

(***************************************************************************)
(* Bounds and value sets                                                   *)
(***************************************************************************)
\* capacity of the hit tables in the concurrent specification (the code's 10000, scaled)
HitsMax == 1
\* largest table capacity tried by the sequential eviction scenario
EvictMax == 3

Instances == {"i1"}
Callers == {"c1", "c2"}
Hashes == {"", "k1"}
EvictKeys == <<"k1", "k2", "k3", "k4", "k5">>
Days == {7, 30}

\* RemoteFallbackCacheProviderOptions: which providers are present, and the flag
\* (writeRemoteCache FALSE stands for false and for undefined, both falsy)
Options == [localCacheProvider : BOOLEAN, remoteCacheProvider : BOOLEAN, writeRemoteCache : BOOLEAN]

(***************************************************************************)
(* LRUCache<string, boolean> as used by the orchestrator: a sequence of    *)
(* entries, least recently used first.  An entry that has outlived its ttl *)
(* of one hour is stale: it stays in the table, and counts for its size,   *)
(* until a get finds and deletes it, a set replaces it or it is evicted.   *)
(* Only the specification with expiry lets time pass; in the others no     *)
(* entry reaches its ttl.                                                  *)
(***************************************************************************)
Min(a, b) == IF a < b THEN a ELSE b

SelectSeqKey(cache, k) == SelectSeq(cache, LAMBDA e : e.key # k)

\* a new entry, its ttl starting now
Entry(k, v) == [key |-> k, value |-> v, stale |-> FALSE]

\* mutant of Live: stale entries are served (allowStale)
LiveAlways(e) == TRUE

\* the entry has not outlived its ttl
Live(e) == ~e.stale

\* the key has an entry, stale or not
KeyPresent(cache, k) == \E n \in 1..Len(cache) : cache[n].key = k

\* has(k): the key has an entry that is not stale
LRUHas(cache, k) == \E n \in 1..Len(cache) : cache[n].key = k /\ Live(cache[n])

\* mutant of LRUValue: the reader finds nothing recorded, as it would in a table of
\* its own instance that no other instance writes
LRUValueUnrecorded(cache, k) == "undefined"

\* the value get(k) returns: "true", "false" or "undefined"
LRUValue(cache, k) ==
    IF LRUHas(cache, k)
    THEN LET n == CHOOSE m \in 1..Len(cache) : cache[m].key = k
         IN IF cache[n].value THEN "true" ELSE "false"
    ELSE "undefined"

\* the table after get(k): a present key becomes the most recently used, a stale
\* entry is deleted
LRUTouch(cache, k) ==
    IF LRUHas(cache, k)
    THEN LET n == CHOOSE m \in 1..Len(cache) : cache[m].key = k
         IN Append(SelectSeqKey(cache, k), cache[n])
    ELSE SelectSeqKey(cache, k)

\* mutant of LRUSet: a full table keeps growing
LRUSetNoEvict(cache, k, v, max) ==
    Append(SelectSeqKey(cache, k), Entry(k, v))

\* mutant of LRUSet: a full table evicts its most recently used entry
LRUSetEvictNewest(cache, k, v, max) ==
    IF KeyPresent(cache, k) \/ Len(cache) < max
    THEN Append(SelectSeqKey(cache, k), Entry(k, v))
    ELSE Append(SubSeq(cache, 1, Len(cache) - 1), Entry(k, v))

\* mutant of LRUSet: a key that has an entry keeps the value recorded first
LRUSetKeepExisting(cache, k, v, max) ==
    IF KeyPresent(cache, k)
    THEN LET n == CHOOSE m \in 1..Len(cache) : cache[m].key = k
         IN Append(SelectSeqKey(cache, k), cache[n])
    ELSE IF Len(cache) < max
         THEN Append(cache, Entry(k, v))
         ELSE Append(Tail(cache), Entry(k, v))

\* the table after set(k, v): an existing key is updated and becomes the most
\* recently used, a new key evicts the least recently used entry of a full table
LRUSet(cache, k, v, max) ==
    IF KeyPresent(cache, k) \/ Len(cache) < max
    THEN Append(SelectSeqKey(cache, k), Entry(k, v))
    ELSE Append(Tail(cache), Entry(k, v))

\* mutant of HitsAfterClear: the tables are emptied only next to the local clear
HitsAfterClearIfLocal(cache, opts) == IF opts.localCacheProvider THEN << >> ELSE cache

\* the table after `localHits.clear()` / `remoteHits.clear()` in clear(): emptied
\* before, and whatever, the options say
HitsAfterClear(cache, opts) == << >>

Truthy(v) == v = "true"

(***************************************************************************)
(* Orchestrator calls                                                      *)
(***************************************************************************)
IdleCall ==
    [op |-> "none", hash |-> "", inst |-> "i1", pc |-> "idle", localResult |-> "none",
     localHit |-> "undefined", remoteHit |-> "undefined", ret |-> "pending",
     log |-> << >>, pending |-> {}, sinceDays |-> 0, passed |-> 0]

NewCall(op, i, h) == [IdleCall EXCEPT !.op = op, !.inst = i, !.hash = h, !.pc = "running"]

\* a caller issues its next call once its previous one has completed and none of the
\* writes that call started is still in flight
Startable(c) == calls[c].pc \in {"idle", "done"} /\ calls[c].pending = {}

Log(rec, provider, method) == Append(rec.log, [provider |-> provider, method |-> method])

Count(log, provider, method) ==
    Cardinality({n \in 1..Len(log) : log[n] = [provider |-> provider, method |-> method]})

\* mutant of ShouldFallback: the remote tier is consulted whenever it is configured
ShouldFallbackAlways(localHit, opts) == opts.remoteCacheProvider

\* `!localHit && remoteCacheProvider`
ShouldFallback(localHit, opts) == ~Truthy(localHit) /\ opts.remoteCacheProvider

\* `localCacheProvider && remoteHit`
ShouldRepopulate(remoteHit, opts) == opts.localCacheProvider /\ remoteHit

\* mutant of ShouldWriteRemoteCache: the writeRemoteCache flag is ignored
ShouldWriteRemoteCacheNoFlag(remoteRecord, opts) ==
    ~Truthy(remoteRecord) /\ opts.remoteCacheProvider

\* mutant of ShouldWriteRemoteCache: a remote write is skipped while another caller's
\* remote write is in flight
ShouldWriteRemoteCacheDedup(remoteRecord, opts) ==
    /\ ~Truthy(remoteRecord) /\ opts.remoteCacheProvider /\ opts.writeRemoteCache
    /\ \A d \in DOMAIN calls : "remote" \notin calls[d].pending

\* `!this.isRemoteHit(hash) && !!remoteCacheProvider && writeRemoteCache`
ShouldWriteRemoteCache(remoteRecord, opts) ==
    ~Truthy(remoteRecord) /\ opts.remoteCacheProvider /\ opts.writeRemoteCache

\* mutant of ShouldWriteLocalCache: a key is written unless it was ever seen
ShouldWriteLocalCacheUnlessSeen(localRecord, opts) ==
    localRecord = "undefined" /\ opts.localCacheProvider

\* `!this.isLocalHit(hash) && !!localCacheProvider`
ShouldWriteLocalCache(localRecord, opts) == ~Truthy(localRecord) /\ opts.localCacheProvider

\* fetch from `const localHit = localHits.get(hash)` to its next await or its return
FetchAfterLocal(c, rec, table) ==
    LET localHit == LRUValue(table, rec.hash)
        opts == options[rec.inst]
        r == [rec EXCEPT !.localHit = localHit]
    IN /\ localHits' = LRUTouch(table, rec.hash)
       /\ remoteHits' = remoteHits
       /\ IF ShouldFallback(localHit, opts)
          THEN calls' = [calls EXCEPT ![c] =
                   [r EXCEPT !.pc = "remoteFetch", !.log = Log(r, "remote", "fetch")]]
          ELSE calls' = [calls EXCEPT ![c] =
                   [r EXCEPT !.pc = "done",
                             !.ret = IF Truthy(localHit) THEN "true" ELSE "false"]]

\* fetch(hash, target) up to its first await
FetchBegin(c, i, h) ==
    LET rec == NewCall("fetch", i, h)
    IN IF options[i].localCacheProvider
       THEN /\ calls' = [calls EXCEPT ![c] =
                   [rec EXCEPT !.pc = "localFetch", !.log = Log(rec, "local", "fetch")]]
            /\ UNCHANGED <<localHits, remoteHits>>
       ELSE FetchAfterLocal(c, rec, localHits)

FetchStart(c, i, h) ==
    /\ Startable(c)
    /\ FetchBegin(c, i, h)
    /\ UNCHANGED <<r2Vars, options, hitsMax, script>>

\* `await localCacheProvider.fetch(hash, target)` resolves with localHit
LocalFetchResolves(c, localHit) ==
    /\ calls[c].pc = "localFetch"
    /\ FetchAfterLocal(c, [calls[c] EXCEPT !.localResult = IF localHit THEN "true" ELSE "false"],
                       LRUSet(localHits, calls[c].hash, localHit, hitsMax))
    /\ UNCHANGED <<r2Vars, options, hitsMax, script>>

\* `await remoteCacheProvider.fetch(hash, target)` resolves with remoteHit
RemoteFetchResolves(c, remoteHit) ==
    LET rec == [calls[c] EXCEPT !.remoteHit = IF remoteHit THEN "true" ELSE "false"]
    IN /\ calls[c].pc = "remoteFetch"
       /\ remoteHits' = LRUSet(remoteHits, rec.hash, remoteHit, hitsMax)
       /\ IF ShouldRepopulate(remoteHit, options[rec.inst])
          THEN calls' = [calls EXCEPT ![c] =
                   [rec EXCEPT !.pc = "localPut", !.log = Log(rec, "local", "put")]]
          ELSE calls' = [calls EXCEPT ![c] =
                   [rec EXCEPT !.pc = "done", !.ret = rec.remoteHit]]
       /\ UNCHANGED <<r2Vars, options, hitsMax, localHits, script>>

\* mutant of LocalPutResolves: the repopulated key is recorded as a local hit
LocalPutResolvesRecords(c) ==
    /\ calls[c].pc = "localPut"
    /\ calls' = [calls EXCEPT ![c].pc = "done", ![c].ret = calls[c].remoteHit]
    /\ localHits' = LRUSet(localHits, calls[c].hash, TRUE, hitsMax)
    /\ UNCHANGED <<r2Vars, options, hitsMax, remoteHits, script>>

\* `await localCacheProvider.put(hash, target)` inside fetch resolves
LocalPutResolves(c) ==
    /\ calls[c].pc = "localPut"
    /\ calls' = [calls EXCEPT ![c].pc = "done", ![c].ret = calls[c].remoteHit]
    /\ UNCHANGED <<r2Vars, options, hitsMax, localHits, remoteHits, script>>

\* put(hash, target) up to `await Promise.all(putPromises)`
PutBegin(c, i, h) ==
    LET rec == NewCall("put", i, h)
        opts == options[i]
        local == ShouldWriteLocalCache(LRUValue(localHits, h), opts)
        remote == ShouldWriteRemoteCache(LRUValue(remoteHits, h), opts)
        log1 == IF local THEN Log(rec, "local", "put") ELSE rec.log
        log2 == IF remote THEN Append(log1, [provider |-> "remote", method |-> "put"]) ELSE log1
    IN /\ localHits' = LRUTouch(localHits, h)
       /\ remoteHits' = LRUTouch(remoteHits, h)
       /\ calls' = [calls EXCEPT ![c] =
              [rec EXCEPT !.pc = "putAll", !.log = log2,
                          !.pending = (IF local THEN {"local"} ELSE {})
                                      \cup (IF remote THEN {"remote"} ELSE {})]]

PutStart(c, i, h) ==
    /\ Startable(c)
    /\ PutBegin(c, i, h)
    /\ UNCHANGED <<r2Vars, options, hitsMax, script>>

\* mutant of SubPutResolves: a provider put that resolves is recorded as a hit
SubPutResolvesRecords(c, p) ==
    /\ p \in calls[c].pending
    /\ calls' = [calls EXCEPT ![c].pending = @ \ {p}]
    /\ localHits' = IF p = "local" THEN LRUSet(localHits, calls[c].hash, TRUE, hitsMax)
                    ELSE localHits
    /\ remoteHits' = IF p = "remote" THEN LRUSet(remoteHits, calls[c].hash, TRUE, hitsMax)
                     ELSE remoteHits
    /\ UNCHANGED <<r2Vars, options, hitsMax, script>>

\* one of the provider puts collected in putPromises resolves
SubPutResolves(c, p) ==
    /\ p \in calls[c].pending
    /\ calls' = [calls EXCEPT ![c].pending = @ \ {p}]
    /\ UNCHANGED <<r2Vars, options, hitsMax, localHits, remoteHits, script>>

\* one of the provider puts rejects: Promise.all rejects at once, while the other
\* write may still be in flight
SubPutRejects(c, p) ==
    /\ p \in calls[c].pending
    /\ calls' = [calls EXCEPT ![c].pending = @ \ {p},
                              ![c].pc = "done",
                              ![c].ret = IF calls[c].pc = "putAll" THEN "throw" ELSE @]
    /\ UNCHANGED <<r2Vars, options, hitsMax, localHits, remoteHits, script>>

\* `await Promise.all(putPromises)` resolves: every collected put has resolved
PutAllResolves(c) ==
    /\ calls[c].pc = "putAll"
    /\ calls[c].pending = {}
    /\ calls' = [calls EXCEPT ![c].pc = "done", ![c].ret = "void"]
    /\ UNCHANGED <<r2Vars, options, hitsMax, localHits, remoteHits, script>>

\* clear() up to `return localCacheProvider.clear()`
ClearStart(c, i) ==
    LET rec == NewCall("clear", i, "")
    IN /\ Startable(c)
       /\ localHits' = HitsAfterClear(localHits, options[i])
       /\ remoteHits' = HitsAfterClear(remoteHits, options[i])
       /\ IF options[i].localCacheProvider
          THEN calls' = [calls EXCEPT ![c] =
                   [rec EXCEPT !.pc = "localClear", !.log = Log(rec, "local", "clear")]]
          ELSE calls' = [calls EXCEPT ![c] = [rec EXCEPT !.pc = "done", !.ret = "void"]]
       /\ UNCHANGED <<r2Vars, options, hitsMax, script>>

\* mutant of PurgeArg: the local purge is always asked for thirty days
PurgeArgMonth(sinceDays) == 30

\* the argument of `localCacheProvider.purge(sinceDays)`
PurgeArg(sinceDays) == sinceDays

\* purge(sinceDays) up to `return localCacheProvider.purge(sinceDays)`
PurgeStart(c, i, sinceDays) ==
    LET rec == [NewCall("purge", i, "") EXCEPT !.sinceDays = sinceDays]
    IN /\ Startable(c)
       /\ IF options[i].localCacheProvider
          THEN calls' = [calls EXCEPT ![c] =
                   [rec EXCEPT !.pc = "localPurge", !.log = Log(rec, "local", "purge"),
                               !.passed = PurgeArg(sinceDays)]]
          ELSE calls' = [calls EXCEPT ![c] = [rec EXCEPT !.pc = "done", !.ret = "void"]]
       /\ UNCHANGED <<r2Vars, options, hitsMax, localHits, remoteHits, script>>

\* the local provider's clear() or purge() resolves
LocalMaintenanceResolves(c) ==
    /\ calls[c].pc \in {"localClear", "localPurge"}
    /\ calls' = [calls EXCEPT ![c].pc = "done", ![c].ret = "void"]
    /\ UNCHANGED <<r2Vars, options, hitsMax, localHits, remoteHits, script>>

\* the provider call a fetch, clear or purge is awaiting rejects: nothing catches it
AwaitRejects(c) ==
    /\ calls[c].pc \in {"localFetch", "remoteFetch", "localPut", "localClear", "localPurge"}
    /\ calls' = [calls EXCEPT ![c].pc = "done", ![c].ret = "throw"]
    /\ UNCHANGED <<r2Vars, options, hitsMax, localHits, remoteHits, script>>

(***************************************************************************)
(* CloudflareR2CacheProvider                                               *)
(***************************************************************************)
\* largest maxSize option, and largest size of one output file, tried
MaxBytes == 2

R2Callers == {"r1", "r2"}
\* the caller of the single-caller specification of the provider
R2Main == {"r1"}
R2Keys == Hashes \ {""}
Paths == {"lib/file1.js", "dist/file2.js"}
\* a file system under target.cwd: the size of each path, -1 when it does not exist
FileSystems == [Paths -> {-1} \cup 1..MaxBytes]

\* Target.outputs: undefined, or a list of globs
Targets ==
    { [defined |-> FALSE, outputs |-> << >>],
      [defined |-> TRUE, outputs |-> <<"**/*">>],
      [defined |-> TRUE, outputs |-> <<"lib/**/*">>],
      [defined |-> TRUE, outputs |-> <<"lib/file1.js", "dist/file2.js">>] }

NoObject == [size |-> -1, writer |-> "none"]
Objects == [size : 0..(2 * MaxBytes), writer : {"other"}]

S3Errors == {"NoSuchKey", "Http404", "AccessDenied"}

\* `target.outputs || ["**/*"]`
OutputGlob(target) == IF target.defined THEN target.outputs ELSE <<"**/*">>

\* mutant of PackEntries: the glob list is always handed to the packer
PackEntriesAlways(globs) == [defined |-> TRUE, entries |-> globs]

\* the `entries` option given to tar.pack: undefined for the single wildcard
PackEntries(globs) ==
    IF Len(globs) = 1 /\ globs[1] = "**/*"
    THEN [defined |-> FALSE, entries |-> << >>]
    ELSE [defined |-> TRUE, entries |-> globs]

\* target.outputs of the call, statSizes: what the stats of the globs that exist
\* as paths add up to, totalSize: the estimate once the loop has run

\* fs.existsSync(path.resolve(target.cwd, glob)): only a literal path names a file
ExistsSync(fs, glob) == glob \in Paths /\ fs[glob] >= 0

RECURSIVE TotalSize(_, _)
\* the loop over outputGlob: the sizes of the globs that exist as paths, added up
TotalSize(globs, fs) ==
    IF globs = << >> THEN 0
    ELSE (IF ExistsSync(fs, Head(globs)) THEN fs[Head(globs)] ELSE 0) + TotalSize(Tail(globs), fs)

GlobMatches(glob, path) ==
    \/ glob = path
    \/ glob = "**/*"
    \/ glob = "lib/**/*" /\ path = "lib/file1.js"

RECURSIVE SumSizes(_, _)
SumSizes(paths, fs) ==
    IF paths = {} THEN 0
    ELSE LET q == CHOOSE x \in paths : TRUE IN fs[q] + SumSizes(paths \ {q}, fs)

\* the size of the archive tar.pack makes of the files the globs select
ArchiveSize(globs, fs) ==
    SumSizes({q \in Paths : fs[q] >= 0 /\ \E n \in 1..Len(globs) : GlobMatches(globs[n], q)}, fs)

\* mutant of TooLargeToDownload: the probed size is ignored
TooLargeToDownloadNever(contentLength, max) == FALSE

\* `headResponse.ContentLength && headResponse.ContentLength > maxSize`
TooLargeToDownload(contentLength, max) == contentLength # 0 /\ contentLength > max

\* mutant of TooLargeToUpload: the estimate is compared the wrong way round
TooLargeToUploadNever(totalSize, max) == totalSize < 0

\* `totalSize > maxSize`
TooLargeToUpload(totalSize, max) == totalSize > max

\* mutant of EmptyHash: the empty hash is treated like any other
EmptyHashNever(hash) == FALSE

\* `!hash`
EmptyHash(hash) == hash = ""

\* mutant of FetchCatch: only the not-found errors are turned into a miss
FetchCatchNotFoundOnly(err) == IF err \in {"NoSuchKey", "Http404"} THEN "false" ELSE "throw"

\* mutant of FetchCatch: the error is thrown again
FetchCatchRethrows(err) == "throw"

\* the catch block of fetch: what fetch completes with after the error `err`
FetchCatch(err) == "false"

\* mutant of PutCatch: the error is thrown again
PutCatchRethrows(err) == "throw"

\* the catch block of put: logged, not thrown, put resolves
PutCatch(err) == "void"

\* mutant of ShouldProbe: the object is downloaded without a probe
ShouldProbeNever(max) == FALSE

\* `if (maxSize)` in fetch
ShouldProbe(max) == max # 0

\* mutant of StoredObject: an object already stored under the key is kept
StoredObjectKeepExisting(old, archive, c) ==
    IF old.size = -1 THEN [size |-> archive, writer |-> c] ELSE old

\* the object under the key once PutObject has succeeded, `old` being the object
\* (or none) stored there before: the uploaded archive
StoredObject(old, archive, c) == [size |-> archive, writer |-> c]

IdleR2 ==
    [op |-> "none", hash |-> "", pc |-> "idle", ret |-> "pending", log |-> << >>,
     probed |-> -1, err |-> "none", timer |-> "none", chunks |-> 0, body |-> "none",
     target |-> [defined |-> FALSE, outputs |-> << >>], statSizes |-> -1, totalSize |-> -1,
     archive |-> -1,
     entries |-> [defined |-> FALSE, entries |-> << >>]]

NewR2Call(op, h) == [IdleR2 EXCEPT !.op = op, !.hash = h, !.pc = "running"]

R2Startable(c) == r2calls[c].pc \in {"idle", "done"}

Send(rec, command) == Append(rec.log, command)

R2Done(rec, ret) == [rec EXCEPT !.pc = "done", !.ret = ret]

\* the error `err` reaches the catch block of fetch
R2FetchFails(rec, err) == R2Done([rec EXCEPT !.err = err], FetchCatch(err))

\* the error `err` reaches the catch block of put
R2PutFails(rec, err) == R2Done([rec EXCEPT !.err = err], PutCatch(err))

\* `this.s3Client.send(getCommand)` is called
SendGet(rec) == [rec EXCEPT !.pc = "get", !.log = Send(rec, "GetObject")]

\* fetch(hash, target) up to its first await
R2FetchBegin(c, h) ==
    LET rec == NewR2Call("fetch", h)
    IN r2calls' = [r2calls EXCEPT ![c] =
           IF EmptyHash(h) THEN R2Done(rec, "false")
           ELSE IF ShouldProbe(maxSize)
                THEN [rec EXCEPT !.pc = "head", !.log = Send(rec, "HeadObject")]
                ELSE SendGet(rec)]

R2FetchStart(c, h) ==
    /\ R2Startable(c)
    /\ R2FetchBegin(c, h)
    /\ UNCHANGED <<orchVars, wrapper, maxSize, store>>

\* the HeadObject request resolves with the ContentLength of the stored object
HeadResolves(c) ==
    LET rec == [r2calls[c] EXCEPT !.probed = store[r2calls[c].hash].size]
    IN /\ r2calls[c].pc = "head"
       /\ store[rec.hash] # NoObject
       /\ r2calls' = [r2calls EXCEPT ![c] =
              IF TooLargeToDownload(rec.probed, maxSize) THEN R2Done(rec, "false")
              ELSE SendGet(rec)]
       /\ UNCHANGED <<orchVars, wrapper, maxSize, store>>

\* the errors the store may answer a request for `hash` with
PossibleErrors(hash) ==
    IF store[hash] = NoObject THEN S3Errors ELSE {"AccessDenied"}

\* mutant of RequestRejects: a GetObject request that rejects is sent once more
RequestRejectsRetries(c, err) ==
    /\ r2calls[c].pc \in {"head", "get"}
    /\ err \in PossibleErrors(r2calls[c].hash)
    /\ r2calls' = [r2calls EXCEPT ![c] =
           IF r2calls[c].pc = "get" /\ Len(r2calls[c].log) < 3
           THEN SendGet(r2calls[c])
           ELSE R2FetchFails(r2calls[c], err)]
    /\ UNCHANGED <<orchVars, wrapper, maxSize, store>>

\* the HeadObject or the GetObject request rejects
RequestRejects(c, err) ==
    /\ r2calls[c].pc \in {"head", "get"}
    /\ err \in PossibleErrors(r2calls[c].hash)
    /\ r2calls' = [r2calls EXCEPT ![c] = R2FetchFails(r2calls[c], err)]
    /\ UNCHANGED <<orchVars, wrapper, maxSize, store>>

\* the GetObject request resolves, with or without a Body; with a Body the
\* TimeoutStream is constructed (its timer armed) and the pipeline awaited
GetResolves(c, hasBody) ==
    /\ r2calls[c].pc = "get"
    /\ store[r2calls[c].hash] # NoObject
    /\ r2calls' = [r2calls EXCEPT ![c] =
           IF hasBody
           THEN [r2calls[c] EXCEPT !.pc = "pipeline", !.timer = "armed", !.body = "flowing"]
           ELSE R2FetchFails(r2calls[c], "NoBody")]
    /\ UNCHANGED <<orchVars, wrapper, maxSize, store>>

\* mutant of BodyChunk: the chunk is passed on, the timer left running
BodyChunkKeepsTimer(c) ==
    /\ r2calls[c].pc = "pipeline"
    /\ r2calls[c].body = "flowing"
    /\ r2calls' = [r2calls EXCEPT ![c].chunks = 1]
    /\ UNCHANGED <<orchVars, wrapper, maxSize, store>>

\* a chunk of the body passes through TimeoutStream._transform: clearTimeout
BodyChunk(c) ==
    /\ r2calls[c].pc = "pipeline"
    /\ r2calls[c].body = "flowing"
    /\ r2calls' = [r2calls EXCEPT ![c].timer = "cleared", ![c].chunks = 1]
    /\ UNCHANGED <<orchVars, wrapper, maxSize, store>>

\* the connection stalls: from now on the body delivers nothing
BodyStalls(c) ==
    /\ r2calls[c].pc = "pipeline"
    /\ r2calls[c].body = "flowing"
    /\ r2calls' = [r2calls EXCEPT ![c].body = "stalled"]
    /\ UNCHANGED <<orchVars, wrapper, maxSize, store>>

\* the body ends and the extraction finishes: the pipeline resolves
PipelineResolves(c) ==
    /\ r2calls[c].pc = "pipeline"
    /\ r2calls[c].body = "flowing"
    /\ r2calls' = [r2calls EXCEPT ![c] = R2Done([r2calls[c] EXCEPT !.body = "ended"], "true")]
    /\ UNCHANGED <<orchVars, wrapper, maxSize, store>>

\* the body stream or the extract stream emits an error: the pipeline rejects
PipelineRejects(c, err) ==
    /\ r2calls[c].pc = "pipeline"
    /\ r2calls[c].body = "flowing"
    /\ err = "StreamError" \/ (err = "ExtractError" /\ r2calls[c].chunks > 0)
    /\ r2calls' = [r2calls EXCEPT ![c] =
           R2FetchFails([r2calls[c] EXCEPT !.body = "destroyed"], err)]
    /\ UNCHANGED <<orchVars, wrapper, maxSize, store>>

\* the timer of the TimeoutStream fires, ten minutes after its construction and
\* before any chunk has cleared it: destroy(new Error(message)) tears the pipeline
\* down and the pipeline rejects
TimerFires(c) ==
    /\ r2calls[c].pc = "pipeline"
    /\ r2calls[c].timer = "armed"
    /\ r2calls' = [r2calls EXCEPT ![c] =
           R2FetchFails([r2calls[c] EXCEPT !.timer = "fired", !.body = "destroyed"], "Timeout")]
    /\ UNCHANGED <<orchVars, wrapper, maxSize, store>>

\* put from tar.pack to `await this.s3Client.send(putCommand)`; tar.pack may throw
PackAndSend(rec, packs) ==
    IF packs
    THEN [rec EXCEPT !.pc = "upload", !.entries = PackEntries(OutputGlob(rec.target)),
                     !.log = Send(rec, "PutObject")]
    ELSE R2PutFails(rec, "PackError")

\* put(hash, target) up to its first await
R2PutBegin(c, h, target, fs, packs) ==
    LET globs == OutputGlob(target)
        rec == [NewR2Call("put", h) EXCEPT !.target = target, !.archive = ArchiveSize(globs, fs)]
    IN r2calls' = [r2calls EXCEPT ![c] =
           IF EmptyHash(h) THEN R2Done(NewR2Call("put", h), "void")
           ELSE IF maxSize # 0
                THEN IF \E n \in 1..Len(globs) : ExistsSync(fs, globs[n])
                     THEN [rec EXCEPT !.pc = "stat", !.statSizes = TotalSize(globs, fs)]
                     ELSE PackAndSend([rec EXCEPT !.totalSize = 0], packs)
                ELSE PackAndSend(rec, packs)]

R2PutStart(c, h, target, fs, packs) ==
    /\ R2Startable(c)
    /\ R2PutBegin(c, h, target, fs, packs)
    /\ UNCHANGED <<orchVars, wrapper, maxSize, store>>

\* the last `await fs.promises.stat(globPath)` resolves: totalSize is complete, the
\* size check follows
StatResolves(c, packs) ==
    LET rec == [r2calls[c] EXCEPT !.totalSize = r2calls[c].statSizes]
    IN /\ r2calls[c].pc = "stat"
       /\ r2calls' = [r2calls EXCEPT ![c] =
              IF TooLargeToUpload(rec.totalSize, maxSize)
              THEN R2Done(rec, "void")
              ELSE PackAndSend(rec, packs)]
    /\ UNCHANGED <<orchVars, wrapper, maxSize, store>>

\* a stat rejects (the file vanished): caught, logged, swallowed
StatRejects(c) ==
    /\ r2calls[c].pc = "stat"
    /\ r2calls' = [r2calls EXCEPT ![c] = R2PutFails(r2calls[c], "StatError")]
    /\ UNCHANGED <<orchVars, wrapper, maxSize, store>>

\* the PutObject request resolves: the object at the key is replaced
UploadResolves(c) ==
    /\ r2calls[c].pc = "upload"
    /\ store' = [store EXCEPT ![r2calls[c].hash] =
           StoredObject(store[r2calls[c].hash], r2calls[c].archive, c)]
    /\ r2calls' = [r2calls EXCEPT ![c] = R2Done(r2calls[c], "void")]
    /\ UNCHANGED <<orchVars, wrapper, maxSize>>

\* the PutObject request rejects: caught, logged, swallowed
UploadRejects(c) ==
    /\ r2calls[c].pc = "upload"
    /\ r2calls' = [r2calls EXCEPT ![c] = R2PutFails(r2calls[c], "UploadError")]
    /\ UNCHANGED <<orchVars, wrapper, maxSize, store>>

\* mutant of R2Maintenance: the objects are listed and deleted
R2MaintenanceDeletes(c, op) ==
    /\ R2Startable(c)
    /\ r2calls' = [r2calls EXCEPT ![c] =
           R2Done([NewR2Call(op, "") EXCEPT !.log = <<"ListObjectsV2", "DeleteObjects">>], "void")]
    /\ store' = [k \in Hashes |-> NoObject]
    /\ UNCHANGED <<orchVars, wrapper, maxSize>>

\* clear() and purge(sinceDays): a log line, no request
R2Maintenance(c, op) ==
    /\ R2Startable(c)
    /\ r2calls' = [r2calls EXCEPT ![c] = R2Done(NewR2Call(op, ""), "void")]
    /\ UNCHANGED <<orchVars, wrapper, maxSize, store>>

\* another machine sharing the bucket uploads or deletes an object, or a lifecycle
\* rule of the bucket expires it
StoreChanges(k, o) ==
    /\ store[k] # o
    /\ store' = [store EXCEPT ![k] = o]
    /\ UNCHANGED <<orchVars, wrapper, maxSize, r2calls>>

(***************************************************************************)
(* CloudflareR2CacheStorageWrapper                                          *)
(***************************************************************************)
Cwds == {"/repo/a", "/repo/b"}
WrapperGlobs == {<<"**/*">>, <<"lib/**/*">>, <<"lib/file1.js", "dist/file2.js">>}

NoTarget == [id |-> "none", cwd |-> "none", outputs |-> << >>]

\* the constructor: the minimal target (id, cwd, outputs; its other fields are constants)
NewWrapper(cwd) ==
    [cwd |-> cwd,
     target |-> [id |-> "backfill-target", cwd |-> cwd, outputs |-> <<"**/*">>],
     passed |-> NoTarget]

\* `{...this.target, outputs: outputGlob}`
TargetWithOutputs(target, globs) == [target EXCEPT !.outputs = globs]

\* mutant of TargetAfterPut: put assigns the globs to the stored target
TargetAfterPutAssigned(target, globs) == [target EXCEPT !.outputs = globs]

\* this.target once put has built targetWithOutputs: the spread copied it
TargetAfterPut(target, globs) == target

\* the Target as CloudflareR2CacheProvider.put reads it: its outputs
ProviderTarget(target) == [defined |-> TRUE, outputs |-> target.outputs]

\* fetch(hash): `this.r2Provider.fetch(hash, this.target)`, up to the provider's first await
WrapperFetch(c, h) ==
    /\ R2Startable(c)
    /\ R2FetchBegin(c, h)
    /\ wrapper' = [wrapper EXCEPT !.passed = wrapper.target]
    /\ UNCHANGED <<orchVars, maxSize, store>>

\* put(hash, outputGlob): `this.r2Provider.put(hash, targetWithOutputs)`, up to the
\* provider's first await
WrapperPut(c, h, globs, fs, packs) ==
    LET targetWithOutputs == TargetWithOutputs(wrapper.target, globs)
    IN /\ R2Startable(c)
       /\ R2PutBegin(c, h, ProviderTarget(targetWithOutputs), fs, packs)
       /\ wrapper' = [wrapper EXCEPT !.target = TargetAfterPut(wrapper.target, globs),
                                      !.passed = targetWithOutputs]
       /\ UNCHANGED <<orchVars, maxSize, store>>

OrchIdle ==
    /\ options = [i \in Instances |->
           [localCacheProvider |-> FALSE, remoteCacheProvider |-> FALSE, writeRemoteCache |-> FALSE]]
    /\ hitsMax = HitsMax
    /\ localHits = << >>
    /\ remoteHits = << >>
    /\ calls = [c \in Callers |-> IdleCall]
    /\ script = 0

InitWrapper ==
    /\ OrchIdle
    /\ maxSize = 0
    /\ store = [k \in Hashes |-> NoObject]
    /\ r2calls = [c \in R2Callers |-> IdleR2]
    /\ wrapper \in {NewWrapper(cwd) : cwd \in Cwds}

NextWrapper ==
    \/ \E c \in R2Main, h \in Hashes : WrapperFetch(c, h)
    \/ \E c \in R2Main, h \in Hashes, globs \in WrapperGlobs, fs \in FileSystems, packs \in BOOLEAN :
          WrapperPut(c, h, globs, fs, packs)
    \/ \E c \in R2Main, err \in S3Errors : RequestRejects(c, err)
    \/ \E c \in R2Main, hasBody \in BOOLEAN : GetResolves(c, hasBody)
    \/ \E c \in R2Main : BodyChunk(c)
    \/ \E c \in R2Main : PipelineResolves(c)
    \/ \E c \in R2Main, err \in {"StreamError", "ExtractError"} : PipelineRejects(c, err)
    \/ \E c \in R2Main : TimerFires(c)
    \/ \E c \in R2Main : UploadResolves(c)
    \/ \E c \in R2Main : UploadRejects(c)

SpecWrapper == InitWrapper /\ [][NextWrapper]_vars

R2Idle ==
    /\ maxSize = 0
    /\ store = [k \in Hashes |-> NoObject]
    /\ r2calls = [c \in R2Callers |-> IdleR2]
    /\ wrapper = NewWrapper("/repo/a")

InitR2 ==
    /\ OrchIdle
    /\ maxSize \in 0..MaxBytes
    /\ store \in {f \in [Hashes -> {NoObject} \cup Objects] : f[""] = NoObject}
    /\ r2calls = [c \in R2Callers |-> IdleR2]
    /\ wrapper = NewWrapper("/repo/a")

NextR2 ==
    \/ \E c \in R2Main, h \in Hashes : R2FetchStart(c, h)
    \/ \E c \in R2Main : HeadResolves(c)
    \/ \E c \in R2Main, err \in S3Errors : RequestRejects(c, err)
    \/ \E c \in R2Main, hasBody \in BOOLEAN : GetResolves(c, hasBody)
    \/ \E c \in R2Main : BodyChunk(c)
    \/ \E c \in R2Main : BodyStalls(c)
    \/ \E c \in R2Main : PipelineResolves(c)
    \/ \E c \in R2Main, err \in {"StreamError", "ExtractError"} : PipelineRejects(c, err)
    \/ \E c \in R2Main : TimerFires(c)
    \/ \E c \in R2Main, h \in Hashes, target \in Targets, fs \in FileSystems, packs \in BOOLEAN :
          R2PutStart(c, h, target, fs, packs)
    \/ \E c \in R2Main, packs \in BOOLEAN : StatResolves(c, packs)
    \/ \E c \in R2Main : StatRejects(c)
    \/ \E c \in R2Main : UploadResolves(c)
    \/ \E c \in R2Main : UploadRejects(c)
    \/ \E c \in R2Callers, op \in {"clear", "purge"} : R2Maintenance(c, op)
    \/ \E k \in R2Keys, o \in {NoObject} \cup Objects : StoreChanges(k, o)

SpecR2 == InitR2 /\ [][NextR2]_vars

\* the event loop runs the callback of a timer that is due
SpecR2Live == InitR2 /\ [][NextR2]_vars /\ \A c \in R2Main : WF_vars(TimerFires(c))

(***************************************************************************)
(* Specification of the orchestrator under concurrent callers              *)
(***************************************************************************)
Init ==
    /\ options \in [Instances -> Options]
    /\ hitsMax = HitsMax
    /\ localHits = << >>
    /\ remoteHits = << >>
    /\ calls = [c \in Callers |-> IdleCall]
    /\ script = 0
    /\ R2Idle

Next ==
    \/ \E c \in Callers, i \in Instances, h \in Hashes : FetchStart(c, i, h)
    \/ \E c \in Callers, localHit \in BOOLEAN : LocalFetchResolves(c, localHit)
    \/ \E c \in Callers, remoteHit \in BOOLEAN : RemoteFetchResolves(c, remoteHit)
    \/ \E c \in Callers : LocalPutResolves(c)
    \/ \E c \in Callers, i \in Instances, h \in Hashes : PutStart(c, i, h)
    \/ \E c \in Callers, p \in {"local", "remote"} : SubPutResolves(c, p)
    \/ \E c \in Callers, p \in {"local", "remote"} : SubPutRejects(c, p)
    \/ \E c \in Callers : PutAllResolves(c)
    \/ \E c \in Callers, i \in Instances : ClearStart(c, i)
    \/ \E c \in Callers, i \in Instances, d \in Days : PurgeStart(c, i, d)
    \/ \E c \in Callers : LocalMaintenanceResolves(c)
    \/ \E c \in Callers : AwaitRejects(c)

Spec == Init /\ [][Next]_vars

(***************************************************************************)
(* Sequential eviction scenario: one caller fetches EvictKeys in order on   *)
(* an orchestrator with both tiers, every local fetch a miss, from empty    *)
(* tables of capacity 1..EvictMax.                                          *)
(***************************************************************************)
InitEvict ==
    /\ options = [i \in Instances |->
           [localCacheProvider |-> TRUE, remoteCacheProvider |-> TRUE, writeRemoteCache |-> FALSE]]
    /\ hitsMax \in 1..EvictMax
    /\ localHits = << >>
    /\ remoteHits = << >>
    /\ calls = [c \in Callers |-> IdleCall]
    /\ script = 0
    /\ R2Idle

EvictFetchStart ==
    /\ Startable("c1")
    /\ script < Len(EvictKeys)
    /\ FetchBegin("c1", "i1", EvictKeys[script + 1])
    /\ script' = script + 1
    /\ UNCHANGED <<r2Vars, options, hitsMax>>

NextEvict ==
    \/ EvictFetchStart
    \/ LocalFetchResolves("c1", FALSE)
    \/ \E remoteHit \in BOOLEAN : RemoteFetchResolves("c1", remoteHit)
    \/ LocalPutResolves("c1")

SpecEvict == InitEvict /\ [][NextEvict]_vars

(***************************************************************************)
(* Two orchestrator instances in one process: caller c1 uses instance i1,   *)
(* caller c2 uses instance i2, each constructed with options of its own;    *)
(* the static tables are the same two tables for both.                      *)
(***************************************************************************)
SharedInstances == {"i1", "i2"}
SharedHashes == {"k1"}

InstanceOf(c) == IF c = "c1" THEN "i1" ELSE "i2"

InitShared ==
    /\ options \in [SharedInstances -> Options]
    /\ hitsMax = HitsMax
    /\ localHits = << >>
    /\ remoteHits = << >>
    /\ calls = [c \in Callers |-> IdleCall]
    /\ script = 0
    /\ R2Idle

NextShared ==
    \/ \E c \in Callers, h \in SharedHashes : FetchStart(c, InstanceOf(c), h)
    \/ \E c \in Callers, localHit \in BOOLEAN : LocalFetchResolves(c, localHit)
    \/ \E c \in Callers, remoteHit \in BOOLEAN : RemoteFetchResolves(c, remoteHit)
    \/ \E c \in Callers : LocalPutResolves(c)
    \/ \E c \in Callers, h \in SharedHashes : PutStart(c, InstanceOf(c), h)
    \/ \E c \in Callers, p \in {"local", "remote"} : SubPutResolves(c, p)
    \/ \E c \in Callers, p \in {"local", "remote"} : SubPutRejects(c, p)
    \/ \E c \in Callers : PutAllResolves(c)
    \/ \E c \in Callers : ClearStart(c, InstanceOf(c))
    \/ \E c \in Callers : LocalMaintenanceResolves(c)
    \/ \E c \in Callers : AwaitRejects(c)

SpecShared == InitShared /\ [][NextShared]_vars

(***************************************************************************)
(* Concurrent puts of one key: the orchestrator composed with               *)
(* CloudflareR2CacheProvider as its remote provider.  The remote put of     *)
(* caller c1 is the provider call r1, that of c2 the provider call r2.      *)
(***************************************************************************)
RaceKey == "k1"
RaceTarget == [defined |-> TRUE, outputs |-> <<"lib/file1.js", "dist/file2.js">>]
RaceOptions == {o \in Options : o.remoteCacheProvider /\ o.writeRemoteCache}
\* the outputs at the time of a put: one file, of any size
RaceFileSystems == {fs \in FileSystems : fs["lib/file1.js"] >= 1 /\ fs["dist/file2.js"] = -1}
\* the instances a caller calls put on: c1 on i1, c2 on either
RaceInstances(c) == IF c = "c1" THEN {"i1"} ELSE SharedInstances

R2Of(c) == IF c = "c1" THEN "r1" ELSE "r2"

\* put(hash, target) on the orchestrator up to `await Promise.all(putPromises)`:
\* remoteCacheProvider.put(hash, target), when called, runs up to its first await
RacePutStart(c, i, fs) ==
    /\ Startable(c)
    /\ PutBegin(c, i, RaceKey)
    /\ IF ShouldWriteRemoteCache(LRUValue(remoteHits, RaceKey), options[i])
       THEN R2PutBegin(R2Of(c), RaceKey, RaceTarget, fs, TRUE)
       ELSE r2calls' = r2calls
    /\ UNCHANGED <<options, hitsMax, script, maxSize, store, wrapper>>

\* the promise of remoteCacheProvider.put resolves: the provider call has returned
RaceRemoteSettles(c) ==
    /\ r2calls[R2Of(c)].pc = "done"
    /\ SubPutResolves(c, "remote")

InitRace ==
    /\ options \in [SharedInstances -> RaceOptions]
    /\ hitsMax = HitsMax
    /\ localHits = << >>
    /\ remoteHits = << >>
    /\ calls = [c \in Callers |-> IdleCall]
    /\ script = 0
    /\ R2Idle

NextRace ==
    \/ \E c \in Callers : \E i \in RaceInstances(c), fs \in RaceFileSystems :
          RacePutStart(c, i, fs)
    \/ \E c \in Callers : RaceRemoteSettles(c)
    \/ \E c \in Callers : SubPutResolves(c, "local")
    \/ \E c \in Callers : SubPutRejects(c, "local")
    \/ \E c \in Callers : PutAllResolves(c)
    \/ \E r \in R2Callers : UploadResolves(r)
    \/ \E r \in R2Callers : UploadRejects(r)

SpecRace == InitRace /\ [][NextRace]_vars

(***************************************************************************)
(* The orchestrator while time passes: an entry of a hit table outlives its *)
(* ttl, one hour after the set that wrote it.                               *)
(***************************************************************************)
TtlHashes == {"k1"}

\* an hour has passed since localHits.set wrote the entry
LocalHitExpires(n) ==
    /\ n \in 1..Len(localHits)
    /\ ~localHits[n].stale
    /\ localHits' = [localHits EXCEPT ![n].stale = TRUE]
    /\ UNCHANGED <<r2Vars, options, hitsMax, remoteHits, calls, script>>

\* an hour has passed since remoteHits.set wrote the entry
RemoteHitExpires(n) ==
    /\ n \in 1..Len(remoteHits)
    /\ ~remoteHits[n].stale
    /\ remoteHits' = [remoteHits EXCEPT ![n].stale = TRUE]
    /\ UNCHANGED <<r2Vars, options, hitsMax, localHits, calls, script>>

NextTtl ==
    \/ \E c \in Callers, i \in Instances, h \in TtlHashes : FetchStart(c, i, h)
    \/ \E c \in Callers, localHit \in BOOLEAN : LocalFetchResolves(c, localHit)
    \/ \E c \in Callers, remoteHit \in BOOLEAN : RemoteFetchResolves(c, remoteHit)
    \/ \E c \in Callers : LocalPutResolves(c)
    \/ \E c \in Callers, i \in Instances, h \in TtlHashes : PutStart(c, i, h)
    \/ \E c \in Callers, p \in {"local", "remote"} : SubPutResolves(c, p)
    \/ \E c \in Callers : PutAllResolves(c)
    \/ \E n \in 1..HitsMax : LocalHitExpires(n)
    \/ \E n \in 1..HitsMax : RemoteHitExpires(n)

SpecTtl == Init /\ [][NextTtl]_vars

(***************************************************************************)
(* The two tiers stacked: one caller on an orchestrator whose remote        *)
(* provider is CloudflareR2CacheProvider.  The remote fetch or put of the   *)
(* caller is the provider call R2Of(c); the local provider is any provider. *)
(***************************************************************************)
StackCallers == {"c1"}
\* the objects found in the bucket: one within every maximum, one beyond every maximum
StackObjects == {o \in Objects : o.size \in {1, MaxBytes + 1}}

\* `await remoteCacheProvider.fetch(hash, target)`: when the segment of fetch that
\* has just run ended there, the provider's fetch has run up to its first await
StackRemoteFetchBegins(c) ==
    IF calls'[c].pc = "remoteFetch"
    THEN R2FetchBegin(R2Of(c), calls'[c].hash)
    ELSE r2calls' = r2calls

\* fetch(hash, target) on the orchestrator up to its first await
StackFetchStart(c, i, h) ==
    /\ Startable(c)
    /\ FetchBegin(c, i, h)
    /\ StackRemoteFetchBegins(c)
    /\ UNCHANGED <<options, hitsMax, script, maxSize, store, wrapper>>

\* `await localCacheProvider.fetch(hash, target)` resolves with localHit
StackLocalFetchResolves(c, localHit) ==
    /\ calls[c].pc = "localFetch"
    /\ FetchAfterLocal(c, [calls[c] EXCEPT !.localResult = IF localHit THEN "true" ELSE "false"],
                       LRUSet(localHits, calls[c].hash, localHit, hitsMax))
    /\ StackRemoteFetchBegins(c)
    /\ UNCHANGED <<options, hitsMax, script, maxSize, store, wrapper>>

\* the promise of remoteCacheProvider.fetch resolves with what the provider call
\* returned
StackRemoteFetchReturns(c) ==
    /\ r2calls[R2Of(c)].pc = "done"
    /\ r2calls[R2Of(c)].ret \in {"true", "false"}
    /\ RemoteFetchResolves(c, r2calls[R2Of(c)].ret = "true")

\* a call of the local provider that fetch is awaiting rejects
StackLocalRejects(c) ==
    /\ calls[c].pc \in {"localFetch", "localPut"}
    /\ AwaitRejects(c)

\* put(hash, target) on the orchestrator up to `await Promise.all(putPromises)`:
\* remoteCacheProvider.put(hash, target), when called, runs up to its first await
StackPutStart(c, i, h, fs, packs) ==
    /\ Startable(c)
    /\ PutBegin(c, i, h)
    /\ IF ShouldWriteRemoteCache(LRUValue(remoteHits, h), options[i])
       THEN R2PutBegin(R2Of(c), h, RaceTarget, fs, packs)
       ELSE r2calls' = r2calls
    /\ UNCHANGED <<options, hitsMax, script, maxSize, store, wrapper>>

InitStack ==
    /\ options \in [Instances -> Options]
    /\ hitsMax = HitsMax
    /\ localHits = << >>
    /\ remoteHits = << >>
    /\ calls = [c \in Callers |-> IdleCall]
    /\ script = 0
    /\ maxSize \in 0..MaxBytes
    /\ store \in {f \in [Hashes -> {NoObject} \cup StackObjects] : f[""] = NoObject}
    /\ r2calls = [c \in R2Callers |-> IdleR2]
    /\ wrapper = NewWrapper("/repo/a")

\* a provider call, a store request or a timer that is outstanding completes
StackProgress ==
    \/ \E c \in StackCallers, localHit \in BOOLEAN : StackLocalFetchResolves(c, localHit)
    \/ \E c \in StackCallers : StackRemoteFetchReturns(c)
    \/ \E c \in StackCallers : LocalPutResolves(c)
    \/ \E c \in StackCallers : StackLocalRejects(c)
    \/ \E c \in StackCallers : RaceRemoteSettles(c)
    \/ \E c \in StackCallers : SubPutResolves(c, "local")
    \/ \E c \in StackCallers : SubPutRejects(c, "local")
    \/ \E c \in StackCallers : PutAllResolves(c)
    \/ \E r \in R2Main : HeadResolves(r)
    \/ \E r \in R2Main, err \in S3Errors : RequestRejects(r, err)
    \/ \E r \in R2Main, hasBody \in BOOLEAN : GetResolves(r, hasBody)
    \/ \E r \in R2Main : BodyChunk(r)
    \/ \E r \in R2Main : PipelineResolves(r)
    \/ \E r \in R2Main, err \in {"StreamError", "ExtractError"} : PipelineRejects(r, err)
    \/ \E r \in R2Main : TimerFires(r)
    \/ \E r \in R2Main, packs \in BOOLEAN : StatResolves(r, packs)
    \/ \E r \in R2Main : StatRejects(r)
    \/ \E r \in R2Main : UploadResolves(r)
    \/ \E r \in R2Main : UploadRejects(r)

NextStack ==
    \/ \E c \in StackCallers, i \in Instances, h \in Hashes : StackFetchStart(c, i, h)
    \/ \E c \in StackCallers, i \in Instances, h \in Hashes, fs \in RaceFileSystems,
           packs \in BOOLEAN : StackPutStart(c, i, h, fs, packs)
    \/ \E r \in R2Main : BodyStalls(r)
    \/ StackProgress

SpecStack == InitStack /\ [][NextStack]_vars

\* every call made of a provider or of the store completes, and the event loop runs
\* the callback of a timer that is due
SpecStackLive == InitStack /\ [][NextStack]_vars /\ WF_vars(StackProgress)

(***************************************************************************)
(* Claims on the orchestrator                                              *)
(***************************************************************************)
BothTiers(rec) ==
    options[rec.inst].localCacheProvider /\ options[rec.inst].remoteCacheProvider

LocalFetch == [provider |-> "local", method |-> "fetch"]
RemoteFetch == [provider |-> "remote", method |-> "fetch"]
LocalPut == [provider |-> "local", method |-> "put"]
RemotePut == [provider |-> "remote", method |-> "put"]

\* C1: in a fetch on an orchestrator with both tiers, once the local provider's fetch
\* has returned true the call has returned true and has never called the remote fetch
C1_LocalHitSkipsRemote ==
    \A c \in Callers :
        (calls[c].op = "fetch" /\ BothTiers(calls[c]) /\ calls[c].localResult = "true")
        => /\ calls[c].pc = "done"
           /\ calls[c].ret = "true"
           /\ calls[c].log = <<LocalFetch>>

C1_Witness ==
    \E c \in Callers :
        /\ calls[c].op = "fetch" /\ BothTiers(calls[c])
        /\ calls[c].localResult = "true" /\ calls[c].ret = "true"

\* C2: in a fetch on an orchestrator with both tiers whose local fetch returned false:
\* after a remote hit the local put is invoked exactly once, after the remote fetch and
\* before fetch returns, and fetch returns true; after a remote miss the local put is
\* not invoked and fetch returns false
C2_RemoteHitRepopulates ==
    \A c \in Callers :
        (calls[c].op = "fetch" /\ BothTiers(calls[c]) /\ calls[c].localResult = "false")
        => /\ calls[c].remoteHit = "true"
              => /\ calls[c].log = <<LocalFetch, RemoteFetch, LocalPut>>
                 /\ calls[c].pc \in {"localPut", "done"}
                 /\ calls[c].pc = "done" => calls[c].ret = "true"
           /\ calls[c].remoteHit = "false"
              => /\ calls[c].log = <<LocalFetch, RemoteFetch>>
                 /\ calls[c].pc = "done"
                 /\ calls[c].ret = "false"

\* C3: a put on an orchestrator whose writeRemoteCache flag is false or unset never
\* calls the remote provider's put, whatever the hit tables hold
C3_NoRemoteWriteWithoutFlag ==
    \A c \in Callers :
        (calls[c].op = "put" /\ ~options[calls[c].inst].writeRemoteCache)
        => /\ Count(calls[c].log, "remote", "put") = 0
           /\ "remote" \notin calls[c].pending

C3_Witness ==
    \E c \in Callers :
        /\ calls[c].op = "put" /\ calls[c].pc = "done" /\ calls[c].ret = "void"
        /\ options[calls[c].inst].remoteCacheProvider
        /\ ~options[calls[c].inst].writeRemoteCache
        /\ LRUValue(remoteHits, calls[c].hash) = "undefined"
        /\ calls[c].log = <<LocalPut>>

\* C4: under every interleaving of fetch, put and clear calls neither hit table ever
\* holds more entries than its configured maximum
C4_HitTablesBounded ==
    /\ Len(localHits) <= hitsMax
    /\ Len(remoteHits) <= hitsMax

\* both tables are full and the entry of a completed fetch has been evicted from each
C4_Witness ==
    /\ Len(localHits) = hitsMax
    /\ Len(remoteHits) = hitsMax
    /\ \E c \in Callers :
          /\ calls[c].op = "fetch" /\ calls[c].pc = "done"
          /\ calls[c].log = <<LocalFetch, RemoteFetch>>
          /\ ~LRUHas(localHits, calls[c].hash)
          /\ ~LRUHas(remoteHits, calls[c].hash)

LastKeys(n, m) == SubSeq(EvictKeys, n - Min(n, m) + 1, n)

KeySeq(cache) == [n \in 1..Len(cache) |-> cache[n].key]

\* C5: after the sequential fetches of the first n keys (local miss) from empty tables
\* of capacity M, both tables hold exactly the last min(n, M) keys fetched, the least
\* recently touched ones having been evicted; with M = 3 and k1..k5 both tables have
\* size 3, k1 and k2 are absent from the local table and k3, k4, k5 are present
C5_LeastRecentlyUsedEvicted ==
    calls["c1"].pc \in {"idle", "done"}
    => /\ KeySeq(localHits) = LastKeys(script, hitsMax)
       /\ KeySeq(remoteHits) = LastKeys(script, hitsMax)
       /\ (hitsMax = 3 /\ script = 5)
          => /\ Len(localHits) = 3 /\ Len(remoteHits) = 3
             /\ ~LRUHas(localHits, "k1") /\ ~LRUHas(localHits, "k2")
             /\ LRUHas(localHits, "k3") /\ LRUHas(localHits, "k4") /\ LRUHas(localHits, "k5")

C5_Witness ==
    /\ hitsMax = 3 /\ script = 5
    /\ calls["c1"].pc = "done" /\ calls["c1"].ret = "true"
    /\ calls["c1"].log = <<LocalFetch, RemoteFetch, LocalPut>>
    /\ Len(localHits) = 3
    /\ \A n \in 1..3 : ~localHits[n].value /\ remoteHits[n].value

OthersQuiet(c) == \A d \in Callers \ {c} : calls[d].pc \in {"idle", "done"}

\* C6: with no other operation in flight, the step in which clear() is called leaves
\* both hit tables empty, whichever providers the orchestrator has, and the completion
\* of clear() (the local provider's clear settling) leaves them as they are
C6_ClearEmptiesBothTables ==
    [][\A c \in Callers :
          OthersQuiet(c)
          => /\ (calls'[c] # calls[c] /\ calls'[c].op = "clear" /\ calls[c].pc \in {"idle", "done"})
                => (localHits' = << >> /\ remoteHits' = << >>)
             /\ (calls[c].op = "clear" /\ calls[c].pc = "localClear" /\ calls'[c].pc = "done")
                => (localHits' = localHits /\ remoteHits' = remoteHits)]_vars

\* a clear() has completed on an orchestrator without local provider, after the fetch
\* of the other caller had recorded a remote result
C6_Witness ==
    \E c \in Callers, d \in Callers :
        /\ calls[c].op = "clear" /\ calls[c].pc = "done" /\ calls[c].ret = "void"
        /\ ~options[calls[c].inst].localCacheProvider
        /\ calls[d].op = "fetch" /\ calls[d].pc = "done" /\ calls[d].log = <<RemoteFetch>>
        /\ localHits = << >> /\ remoteHits = << >>

\* C11: a fetch("") has returned false and a put("") has returned normally without
\* any provider having been called, and neither hit table holds an entry for the
\* empty key, whichever providers the orchestrator has
C11_EmptyKeyNoOp ==
    /\ \A c \in Callers :
           (calls[c].op \in {"fetch", "put"} /\ calls[c].hash = "")
           => /\ calls[c].pc = "done"
              /\ calls[c].log = << >>
              /\ calls[c].ret = (IF calls[c].op = "fetch" THEN "false" ELSE "void")
    /\ ~LRUHas(localHits, "")
    /\ ~LRUHas(remoteHits, "")

\* C12: a put never fails, and it has completed only when none of the writes it
\* started is still in flight
C12_PutAwaitsAllWrites ==
    \A c \in Callers :
        calls[c].op = "put"
        => /\ calls[c].ret # "throw"
           /\ calls[c].pc = "done" => calls[c].pending = {}

\* C15: a fetch never fails: it is in progress or has returned a boolean, whatever
\* the local fetch, the remote fetch and the repopulating local put did
C15_FetchNeverThrows ==
    \A c \in Callers :
        calls[c].op = "fetch"
        => /\ calls[c].ret \in {"pending", "true", "false"}
           /\ calls[c].pc = "done" => calls[c].ret \in {"true", "false"}

LocalOnly(rec, method) ==
    IF options[rec.inst].localCacheProvider
    THEN <<[provider |-> "local", method |-> method]>>
    ELSE << >>

\* C16: a clear() or purge(sinceDays) has called the local provider's operation of
\* the same name exactly once when a local provider is configured, purge with the
\* sinceDays it was given, and has called no provider otherwise; the remote provider
\* is never called
C16_MaintenanceIsLocalOnly ==
    \A c \in Callers :
        calls[c].op \in {"clear", "purge"}
        => /\ calls[c].log = LocalOnly(calls[c], calls[c].op)
           /\ (calls[c].op = "purge" /\ options[calls[c].inst].localCacheProvider)
              => calls[c].passed = calls[c].sinceDays

\* a purge(7) and a clear() have completed on an orchestrator with both providers
C16_Witness ==
    \E c \in Callers, d \in Callers :
        /\ calls[c].op = "purge" /\ calls[c].pc = "done" /\ calls[c].ret = "void"
        /\ BothTiers(calls[c])
        /\ calls[c].sinceDays = 7 /\ calls[c].passed = 7
        /\ calls[c].log = <<[provider |-> "local", method |-> "purge"]>>
        /\ calls[d].op = "clear" /\ calls[d].pc = "done"
        /\ calls[d].log = <<[provider |-> "local", method |-> "clear"]>>

\* the table holds the value v for the key k
Recorded(cache, k, v) ==
    \E n \in 1..Len(cache) : cache[n].key = k /\ cache[n].value = v /\ ~cache[n].stale

\* the step is the caller's call of the operation op
Starts(c, op) == Startable(c) /\ calls'[c] # calls[c] /\ calls'[c].op = op

\* C18: with two instances in the process: a fetch on an instance without local
\* provider reads the local record another instance's fetch left for the key (a
\* recorded hit makes it return true without calling any provider); a put on any
\* instance skips the local or the remote write exactly when the table holds a hit
\* for the key, whichever instance recorded it; and the step in which clear() is
\* called on either instance leaves both tables empty
C18_TablesSharedByInstances ==
    [][\A c \in Callers :
          LET rec == calls'[c]
              opts == options[rec.inst]
          IN /\ (Starts(c, "fetch") /\ ~opts.localCacheProvider)
                => /\ rec.localHit = "true" <=> Recorded(localHits, rec.hash, TRUE)
                   /\ rec.localHit = "false" <=> Recorded(localHits, rec.hash, FALSE)
                   /\ Recorded(localHits, rec.hash, TRUE)
                      => (rec.pc = "done" /\ rec.ret = "true" /\ rec.log = << >>)
             /\ Starts(c, "put")
                => /\ "local" \in rec.pending
                      <=> (opts.localCacheProvider /\ ~Recorded(localHits, rec.hash, TRUE))
                   /\ "remote" \in rec.pending
                      <=> (/\ opts.remoteCacheProvider /\ opts.writeRemoteCache
                           /\ ~Recorded(remoteHits, rec.hash, TRUE))
             /\ Starts(c, "clear") => (localHits' = << >> /\ remoteHits' = << >>)]_vars

\* the fetch on i1 recorded a local hit for k1; the fetch of k1 on i2, which has a
\* remote provider only, read it and returned true without calling the remote
C18_Witness ==
    /\ calls["c1"].inst = "i1" /\ calls["c2"].inst = "i2"
    /\ calls["c1"].op = "fetch" /\ calls["c1"].hash = "k1" /\ calls["c1"].localResult = "true"
    /\ ~options["i2"].localCacheProvider /\ options["i2"].remoteCacheProvider
    /\ calls["c2"].op = "fetch" /\ calls["c2"].hash = "k1" /\ calls["c2"].pc = "done"
    /\ calls["c2"].localHit = "true" /\ calls["c2"].ret = "true" /\ calls["c2"].log = << >>

\* C22: a fetch on an orchestrator without local provider has called the remote
\* provider's fetch, and nothing else, when a remote provider is configured, and
\* returns what that call returned; without any provider it has returned false
\* having called nothing
C22_NoLocalProviderIsLocalMiss ==
    \A c \in Callers :
        (calls[c].op = "fetch" /\ ~options[calls[c].inst].localCacheProvider)
        => IF options[calls[c].inst].remoteCacheProvider
           THEN /\ calls[c].log = <<RemoteFetch>>
                /\ (calls[c].pc = "done" /\ calls[c].ret # "throw")
                   => calls[c].ret = calls[c].remoteHit
           ELSE /\ calls[c].log = << >>
                /\ calls[c].pc = "done" /\ calls[c].ret = "false"

\* C23: the step in which put(k) is called issues a local put exactly when a local
\* provider is configured and the local table does not hold true for k, and a remote
\* put exactly when a remote provider is configured, writeRemoteCache is set and the
\* remote table does not hold true for k, the local one first; a key without entry in
\* the local table gets a local put whenever a local provider is configured
C23_PutWritesUnlessRecordedHit ==
    [][\A c \in Callers :
          Starts(c, "put")
          => LET rec == calls'[c]
                 opts == options[rec.inst]
                 local == opts.localCacheProvider /\ ~Recorded(localHits, rec.hash, TRUE)
                 remote == /\ opts.remoteCacheProvider /\ opts.writeRemoteCache
                           /\ ~Recorded(remoteHits, rec.hash, TRUE)
             IN /\ rec.log = (IF local THEN <<LocalPut>> ELSE << >>)
                                 \o (IF remote THEN <<RemotePut>> ELSE << >>)
                /\ rec.pending = (IF local THEN {"local"} ELSE {})
                                     \cup (IF remote THEN {"remote"} ELSE {})
                /\ (opts.localCacheProvider /\ ~KeyPresent(localHits, rec.hash))
                   => Count(rec.log, "local", "put") = 1]_vars

\* on an orchestrator with both providers and the flag set, a put of a key whose
\* local entry was evicted and whose remote record is a hit issued the local put only
C23_Witness ==
    \E c \in Callers :
        /\ calls[c].op = "put" /\ calls[c].log = <<LocalPut>>
        /\ BothTiers(calls[c]) /\ options[calls[c].inst].writeRemoteCache
        /\ ~KeyPresent(localHits, calls[c].hash)
        /\ Recorded(remoteHits, calls[c].hash, TRUE)

TableWellFormed(cache) ==
    /\ \A n \in 1..Len(cache) : cache[n].value \in BOOLEAN
    /\ \A n, m \in 1..Len(cache) : cache[n].key = cache[m].key => n = m

\* C24: the step in which the local fetch of a fetch(k) returns leaves the local
\* table holding that call's result for k, whatever it held before, so that the table
\* holds the result of the local fetch that returned last; a put(k) called while the
\* table holds false for k issues a local put; and the table holds at most one entry
\* per key, its value true or false
C24_LastLocalResultWins ==
    [][/\ TableWellFormed(localHits')
       /\ \A c \in Callers :
             /\ (calls[c].pc = "localFetch" /\ calls'[c].localResult # "none")
                => /\ Len(localHits') >= 1
                   /\ localHits'[Len(localHits')] =
                         [key |-> calls[c].hash, value |-> calls'[c].localResult = "true",
                          stale |-> FALSE]
             /\ (/\ Starts(c, "put") /\ options[calls'[c].inst].localCacheProvider
                 /\ Recorded(localHits, calls'[c].hash, FALSE))
                => "local" \in calls'[c].pending]_vars

\* two fetches of k1: the local fetch of c1 returned true, that of c2 returned false
\* after it, and the table holds false
C24_Witness ==
    /\ calls["c1"].op = "fetch" /\ calls["c1"].hash = "k1" /\ calls["c1"].localResult = "true"
    /\ calls["c2"].op = "fetch" /\ calls["c2"].hash = "k1" /\ calls["c2"].localResult = "false"
    /\ Recorded(localHits, "k1", FALSE)

\* the table holds a hit for k that has outlived its ttl
StaleHit(cache, k) ==
    \E n \in 1..Len(cache) : cache[n].key = k /\ cache[n].value /\ cache[n].stale

\* C25: a put(k) called while the local table's true record for k has outlived its
\* ttl issues the local put whenever a local provider is configured, and one called
\* while the remote table's true record has outlived its ttl issues the remote put
\* whenever a remote provider is configured and writeRemoteCache is set: as for a
\* key that has no record
C25_ExpiredRecordIsAbsent ==
    [][\A c \in Callers :
          Starts(c, "put")
          => LET rec == calls'[c]
                 opts == options[rec.inst]
             IN /\ StaleHit(localHits, rec.hash)
                   => ("local" \in rec.pending <=> opts.localCacheProvider)
                /\ StaleHit(remoteHits, rec.hash)
                   => ("remote" \in rec.pending
                         <=> (opts.remoteCacheProvider /\ opts.writeRemoteCache))]_vars

\* the fetch of c1 recorded a local hit for k1; the put of k1 by c2, called after
\* the record had expired, found it stale (and deleted it) and issued the local put
C25_Witness ==
    /\ calls["c1"].op = "fetch" /\ calls["c1"].hash = "k1"
    /\ calls["c1"].localResult = "true" /\ calls["c1"].ret = "true"
    /\ calls["c2"].op = "put" /\ calls["c2"].hash = "k1"
    /\ Count(calls["c2"].log, "local", "put") = 1
    /\ ~KeyPresent(localHits, "k1")

\* C29: a completed fetch on an instance with a local provider whose own local fetch
\* returned true has returned true without calling the remote provider; one whose
\* local fetch returned false has called the remote provider's fetch, when one is
\* configured, and has returned what its own remote fetch returned, and has returned
\* false when none is configured; whatever the other caller did meanwhile
C29_FetchDecidesOnOwnResult ==
    \A c \in Callers :
        (/\ calls[c].op = "fetch" /\ options[calls[c].inst].localCacheProvider
         /\ calls[c].pc = "done" /\ calls[c].localResult # "none")
        => IF calls[c].localResult = "true"
           THEN calls[c].ret = "true" /\ calls[c].log = <<LocalFetch>>
           ELSE IF options[calls[c].inst].remoteCacheProvider
                THEN /\ Count(calls[c].log, "remote", "fetch") = 1
                     /\ calls[c].remoteHit # "undefined" => calls[c].ret = calls[c].remoteHit
                ELSE calls[c].ret = "false" /\ calls[c].log = <<LocalFetch>>

\* the last call of c is a fetch that was satisfied by remote fallback, and no other
\* caller has called anything yet
FallbackDone(c) ==
    /\ calls[c].op = "fetch" /\ calls[c].pc = "done" /\ calls[c].ret = "true"
    /\ calls[c].log = <<LocalFetch, RemoteFetch, LocalPut>>
    /\ \A d \in Callers \ {c} : calls[d].pc = "idle"

\* C30: when a fetch(k) satisfied by remote fallback is the last operation so far,
\* the local table holds false and the remote table holds true for k, and the step
\* in which put(k) is then called, by the same caller or by the other caller on the
\* other instance, issues the local put when that instance has a local provider and
\* no remote put, whatever its writeRemoteCache
C30_FallbackLeavesLocalMissRemoteHit ==
    [][\A c \in Callers :
          FallbackDone(c)
          => /\ Recorded(localHits, calls[c].hash, FALSE)
             /\ Recorded(remoteHits, calls[c].hash, TRUE)
             /\ \A p \in Callers :
                   (Starts(p, "put") /\ calls'[p].hash = calls[c].hash)
                   => /\ calls'[p].pending =
                            (IF options[calls'[p].inst].localCacheProvider
                             THEN {"local"} ELSE {})
                      /\ Count(calls'[p].log, "remote", "put") = 0]_vars

\* after the fallback fetch of k1 on i1, the put of k1 on i2, which has both
\* providers and writeRemoteCache set, issued the local put only
C30_Witness ==
    /\ calls["c1"].op = "fetch" /\ calls["c1"].hash = "k1" /\ calls["c1"].ret = "true"
    /\ calls["c1"].log = <<LocalFetch, RemoteFetch, LocalPut>>
    /\ calls["c2"].op = "put" /\ calls["c2"].hash = "k1" /\ calls["c2"].inst = "i2"
    /\ options["i2"].localCacheProvider /\ options["i2"].remoteCacheProvider
    /\ options["i2"].writeRemoteCache
    /\ calls["c2"].log = <<LocalPut>>
    /\ Recorded(localHits, "k1", FALSE) /\ Recorded(remoteHits, "k1", TRUE)

\* what a table answers its readers: the value of each key whose entry is live
Contents(cache) ==
    {[key |-> cache[n].key, value |-> cache[n].value] : n \in {m \in 1..Len(cache) : Live(cache[m])}}

\* the last call of c is a completed put, and no other caller has called anything yet
PutDone(c) ==
    /\ calls[c].op = "put" /\ calls[c].pc = "done" /\ calls[c].pending = {}
    /\ \A d \in Callers \ {c} : calls[d] = IdleCall

\* C31: no step of a put (its call, a write of its resolving or rejecting, its
\* return) changes the value either table holds for any key; a put(k) called right
\* after a completed put(k) on the same instance, nothing else having been called in
\* between, issues the writes the first one issued; and no step of a fetch whose
\* local result is a hit changes the remote table
C31_PutLeavesRecords ==
    [][\A c \in Callers :
          /\ (calls'[c] # calls[c] /\ calls'[c].op = "put")
             => /\ Contents(localHits') = Contents(localHits)
                /\ Contents(remoteHits') = Contents(remoteHits)
          /\ (/\ PutDone(c) /\ Starts(c, "put")
              /\ calls'[c].hash = calls[c].hash /\ calls'[c].inst = calls[c].inst)
             => /\ calls'[c].log = calls[c].log
                /\ calls'[c].pending = {calls[c].log[n].provider : n \in 1..Len(calls[c].log)}
          /\ (calls'[c] # calls[c] /\ calls'[c].op = "fetch" /\ calls'[c].localHit = "true")
             => remoteHits' = remoteHits]_vars

\* after a fetch of k1 that missed in both tiers, the put of k1 by c1 wrote both tiers
\* and returned; the put of k1 by c2 has issued both writes again, and both tables
\* still hold false for k1
C31_Witness ==
    /\ calls["c1"].op = "put" /\ calls["c1"].hash = "k1"
    /\ calls["c1"].pc = "done" /\ calls["c1"].ret = "void" /\ calls["c1"].pending = {}
    /\ calls["c1"].log = <<LocalPut, RemotePut>>
    /\ calls["c2"].op = "put" /\ calls["c2"].hash = "k1"
    /\ calls["c2"].log = <<LocalPut, RemotePut>>
    /\ Recorded(localHits, "k1", FALSE) /\ Recorded(remoteHits, "k1", FALSE)

(***************************************************************************)
(* Claims on the object-storage provider                                   *)
(***************************************************************************)
\* C7: a fetch with a maximum size configured whose probe reported a size greater
\* than the maximum has returned false having sent the metadata probe only
C7_OversizeNotDownloaded ==
    \A c \in R2Callers :
        (r2calls[c].op = "fetch" /\ maxSize # 0 /\ r2calls[c].probed > maxSize)
        => /\ r2calls[c].pc = "done"
           /\ r2calls[c].ret = "false"
           /\ r2calls[c].log = <<"HeadObject">>

C7_Witness ==
    \E c \in R2Callers :
        /\ r2calls[c].op = "fetch" /\ maxSize # 0
        /\ r2calls[c].probed = 2 * maxSize
        /\ r2calls[c].ret = "false" /\ r2calls[c].log = <<"HeadObject">>

\* C8: a put with a maximum size configured whose estimated total output size exceeds
\* the maximum completes normally without having sent any request, and the step that
\* completes it leaves the object store unchanged
C8_OversizeNotUploaded ==
    [][\A c \in R2Callers :
          (r2calls'[c].op = "put" /\ maxSize # 0 /\ r2calls'[c].totalSize > maxSize)
          => /\ r2calls'[c].pc = "done"
             /\ r2calls'[c].ret = "void"
             /\ r2calls'[c].log = << >>
             /\ r2calls'[c] # r2calls[c] => store' = store]_vars

C8_Witness ==
    \E c \in R2Callers :
        /\ r2calls[c].op = "put" /\ maxSize # 0 /\ r2calls[c].pc = "done"
        /\ r2calls[c].target.outputs = <<"lib/file1.js", "dist/file2.js">>
        /\ r2calls[c].totalSize > maxSize
        /\ r2calls[c].ret = "void" /\ r2calls[c].log = << >>

\* C9: a fetch whose download response was obtained and whose body stalls before its
\* first byte is eventually aborted by the timeout guard and returns false
C9_StalledDownloadIsMiss ==
    \A c \in R2Main :
        (r2calls[c].pc = "pipeline" /\ r2calls[c].chunks = 0 /\ r2calls[c].body = "stalled")
        ~> (/\ r2calls[c].pc = "done" /\ r2calls[c].ret = "false"
            /\ r2calls[c].err = "Timeout" /\ r2calls[c].body = "destroyed")

C9_Witness ==
    \E c \in R2Main :
        /\ r2calls[c].op = "fetch" /\ r2calls[c].pc = "done" /\ r2calls[c].ret = "false"
        /\ r2calls[c].err = "Timeout" /\ r2calls[c].chunks = 0
        /\ r2calls[c].timer = "fired" /\ r2calls[c].body = "destroyed"

\* C10: fetch("") has returned false and put("") has returned normally without any
\* request having been sent, whatever the configuration of the provider
C10_EmptyHashNoRequest ==
    \A c \in R2Callers :
        (r2calls[c].op \in {"fetch", "put"} /\ r2calls[c].hash = "")
        => /\ r2calls[c].pc = "done"
           /\ r2calls[c].log = << >>
           /\ r2calls[c].ret = (IF r2calls[c].op = "fetch" THEN "false" ELSE "void")

C10_Witness ==
    \E c \in R2Callers :
        /\ r2calls[c].op = "fetch" /\ r2calls[c].hash = "" /\ maxSize # 0
        /\ r2calls[c].pc = "done" /\ r2calls[c].ret = "false" /\ r2calls[c].log = << >>

\* C13: a fetch with a non-empty key never throws and completes with a boolean only;
\* once an error has reached it (NoSuchKey, HTTP 404, any other error of a request,
\* a response without body, a failed extraction, the timeout guard) it has returned
\* false; and a probe that fails leaves the probe the only request sent
C13_FetchFailureIsMiss ==
    [][\A c \in R2Callers :
          (r2calls'[c].op = "fetch" /\ r2calls'[c].hash # "")
          => /\ r2calls'[c].ret \in {"pending", "true", "false"}
             /\ r2calls'[c].pc = "done" => r2calls'[c].ret \in {"true", "false"}
             /\ r2calls'[c].err # "none"
                => (r2calls'[c].pc = "done" /\ r2calls'[c].ret = "false")
             /\ (r2calls[c].pc = "head" /\ r2calls'[c].err # "none")
                => r2calls'[c].log = <<"HeadObject">>]_vars

\* the probe of a stored object was refused: fetch returned false, no download sent
C13_Witness ==
    \E c \in R2Callers :
        /\ r2calls[c].op = "fetch" /\ r2calls[c].hash # ""
        /\ store[r2calls[c].hash] # NoObject
        /\ r2calls[c].pc = "done" /\ r2calls[c].ret = "false"
        /\ r2calls[c].err = "AccessDenied" /\ r2calls[c].log = <<"HeadObject">>

\* C14: a put never throws: it is in progress or has resolved to undefined, and once
\* the size estimation, the packing or the upload request has failed it has resolved
C14_PutSwallowsFailures ==
    \A c \in R2Callers :
        r2calls[c].op = "put"
        => /\ r2calls[c].ret \in {"pending", "void"}
           /\ r2calls[c].pc = "done" => r2calls[c].ret = "void"
           /\ r2calls[c].err # "none" => (r2calls[c].pc = "done" /\ r2calls[c].ret = "void")

\* the upload request of a put within the size limit was rejected
C14_Witness ==
    \E c \in R2Callers :
        /\ r2calls[c].op = "put" /\ r2calls[c].pc = "done" /\ r2calls[c].ret = "void"
        /\ r2calls[c].err = "UploadError" /\ r2calls[c].log = <<"PutObject">>
        /\ maxSize # 0 /\ r2calls[c].totalSize = maxSize

\* C17: the step that runs clear() or purge(sinceDays) sends no request and leaves
\* every stored object as it is, whatever the store holds and whatever else is in
\* flight
C17_MaintenanceLeavesStore ==
    [][\A c \in R2Callers :
          (r2calls'[c] # r2calls[c] /\ r2calls'[c].op \in {"clear", "purge"})
          => /\ store' = store
             /\ r2calls'[c].log = << >>
             /\ r2calls'[c].pc = "done" /\ r2calls'[c].ret = "void"]_vars

\* a purge has run while an upload was in flight, and the object of the key is there
C17_Witness ==
    /\ r2calls["r2"].op = "purge" /\ r2calls["r2"].pc = "done" /\ r2calls["r2"].log = << >>
    /\ r2calls["r1"].pc = "upload"
    /\ store["k1"] \in Objects

C20_PutOverwrites ==
    [][\A c \in R2Callers :
          /\ (r2calls'[c].op = "put" /\ r2calls'[c].pc = "upload")
             => r2calls'[c].log = <<"PutObject">>
          /\ (r2calls[c].pc = "upload" /\ r2calls'[c].pc = "done" /\ r2calls'[c].err = "none")
             => /\ r2calls'[c].log = <<"PutObject">>
                /\ store' = [store EXCEPT ![r2calls[c].hash] =
                       [size |-> r2calls[c].archive, writer |-> c]]
                /\ store[r2calls[c].hash] = [size |-> r2calls[c].archive, writer |-> c]
                   => store' = store]_vars

\* a put whose estimate was within the limit has uploaded its archive
C20_Witness ==
    \E c \in R2Callers :
        /\ r2calls[c].op = "put" /\ r2calls[c].pc = "done" /\ r2calls[c].err = "none"
        /\ maxSize # 0 /\ r2calls[c].totalSize >= 1 /\ r2calls[c].totalSize <= maxSize
        /\ r2calls[c].log = <<"PutObject">>
        /\ store[r2calls[c].hash] = [size |-> r2calls[c].archive, writer |-> c]

\* C21: once a put has packed the working directory, the entry list it gave the
\* packer is the target's list of output globs, except that for a target without
\* outputs and for the list holding only "**/*" it is undefined
C21_PackEntriesFollowOutputs ==
    \A c \in R2Callers :
        (r2calls[c].op = "put" /\ r2calls[c].log = <<"PutObject">>)
        => r2calls[c].entries =
              (IF r2calls[c].target.defined /\ r2calls[c].target.outputs # <<"**/*">>
               THEN [defined |-> TRUE, entries |-> r2calls[c].target.outputs]
               ELSE [defined |-> FALSE, entries |-> << >>])

\* a target whose outputs are the single wildcard was packed with undefined entries
C21_Witness ==
    \E c \in R2Callers :
        /\ r2calls[c].op = "put" /\ r2calls[c].log = <<"PutObject">>
        /\ r2calls[c].target = [defined |-> TRUE, outputs |-> <<"**/*">>]
        /\ r2calls[c].entries = [defined |-> FALSE, entries |-> << >>]
        /\ r2calls[c].pc = "done" /\ r2calls[c].err = "none"

\* C26: in a download whose first chunk has passed the guard the timer is cancelled
\* and stays so, and the download never ends with the guard's timeout; a download
\* that stalls after its first chunk is left as it is, by the guard and by everything
\* else; a put never has a timer
C26_GuardOnlyBoundsStart ==
    [][\A c \in R2Callers :
          /\ (r2calls[c].pc = "pipeline" /\ r2calls[c].chunks > 0)
             => /\ r2calls[c].timer = "cleared"
                /\ r2calls'[c].timer = "cleared"
                /\ r2calls'[c].err # "Timeout"
          /\ (r2calls[c].pc = "pipeline" /\ r2calls[c].chunks > 0 /\ r2calls[c].body = "stalled")
             => r2calls'[c] = r2calls[c]
          /\ r2calls'[c].op = "put" => r2calls'[c].timer = "none"]_vars

\* a download has stalled after its first chunk: the timer is cancelled, fetch pending
C26_Witness ==
    \E c \in R2Callers :
        /\ r2calls[c].op = "fetch" /\ r2calls[c].pc = "pipeline" /\ r2calls[c].ret = "pending"
        /\ r2calls[c].chunks > 0 /\ r2calls[c].body = "stalled"
        /\ r2calls[c].timer = "cleared"

\* C28: the wrapper's stored target is always the one its constructor built (id
\* "backfill-target", the construction cwd, outputs ["**/*"]); a put passed the
\* provider that target with its outputs replaced by the globs of the call, and a
\* fetch passed it the stored target itself, whatever puts came before
C28_WrapperTargetUnchanged ==
    /\ wrapper.target = [id |-> "backfill-target", cwd |-> wrapper.cwd, outputs |-> <<"**/*">>]
    /\ \A c \in R2Main :
          /\ r2calls[c].op = "fetch"
             => wrapper.passed =
                   [id |-> "backfill-target", cwd |-> wrapper.cwd, outputs |-> <<"**/*">>]
          /\ (r2calls[c].op = "put" /\ r2calls[c].hash # "")
             => wrapper.passed =
                   [id |-> "backfill-target", cwd |-> wrapper.cwd,
                    outputs |-> r2calls[c].target.outputs]

\* a put with the globs of two files has uploaded its archive; the stored target
\* still has the wildcard
C28_Witness ==
    \E c \in R2Main :
        /\ r2calls[c].op = "put" /\ r2calls[c].pc = "done" /\ r2calls[c].err = "none"
        /\ store[r2calls[c].hash].writer = c
        /\ wrapper.passed.outputs = <<"lib/file1.js", "dist/file2.js">>
        /\ wrapper.target.outputs = <<"**/*">>

\* C27: with the provider as remote tier and writeRemoteCache set: the step in which
\* a caller calls put(k) while no hit is recorded for k issues the local put (when a
\* local provider is configured) and the remote put, whose upload request is sent in
\* that same step, whether or not the other caller's put of k is in flight, on the
\* same instance or on the other one; and the step in which an upload succeeds leaves
\* that upload's archive stored for k
C27_ConcurrentPutsBothWrite ==
    [][\A c \in Callers :
          /\ (/\ Starts(c, "put")
              /\ ~Recorded(localHits, calls'[c].hash, TRUE)
              /\ ~Recorded(remoteHits, calls'[c].hash, TRUE))
             => /\ calls'[c].pending =
                      (IF options[calls'[c].inst].localCacheProvider THEN {"local"} ELSE {})
                         \cup {"remote"}
                /\ r2calls'[R2Of(c)].op = "put" /\ r2calls'[R2Of(c)].hash = calls'[c].hash
                /\ r2calls'[R2Of(c)].pc = "upload"
                /\ r2calls'[R2Of(c)].log = <<"PutObject">>
          /\ (/\ r2calls[R2Of(c)].pc = "upload" /\ r2calls'[R2Of(c)].pc = "done"
              /\ r2calls'[R2Of(c)].err = "none")
             => store'[r2calls[R2Of(c)].hash] =
                   [size |-> r2calls[R2Of(c)].archive, writer |-> R2Of(c)]]_vars

\* the puts of k1 by the two callers, on different instances, are both in flight with
\* their uploads sent, the archives differing, while the object stored is still the
\* one an earlier put of c2 uploaded
C27_Witness ==
    /\ calls["c1"].op = "put" /\ calls["c1"].pc = "putAll" /\ "remote" \in calls["c1"].pending
    /\ calls["c2"].op = "put" /\ calls["c2"].pc = "putAll" /\ "remote" \in calls["c2"].pending
    /\ calls["c1"].hash = calls["c2"].hash
    /\ calls["c1"].inst # calls["c2"].inst
    /\ r2calls["r1"].pc = "upload" /\ r2calls["r2"].pc = "upload"
    /\ r2calls["r1"].archive # r2calls["r2"].archive
    /\ store["k1"].writer = "r2"

(***************************************************************************)
(* Claims on the two tiers stacked                                         *)
(***************************************************************************)
\* how many times the provider call has sent the command
Sent(log, command) == Cardinality({n \in 1..Len(log) : log[n] = command})

\* the calls a fetch or a put on the orchestrator made, and the requests a fetch or
\* a put on the object-storage provider sent, number at most one of each kind
AtMostOnce ==
    /\ \A c \in StackCallers :
          /\ calls[c].op = "fetch"
             => /\ Count(calls[c].log, "local", "fetch") <= 1
                /\ Count(calls[c].log, "remote", "fetch") <= 1
                /\ Count(calls[c].log, "local", "put") <= 1
                /\ Len(calls[c].log) <= 3
          /\ calls[c].op = "put"
             => /\ Count(calls[c].log, "local", "put") <= 1
                /\ Count(calls[c].log, "remote", "put") <= 1
                /\ Len(calls[c].log) <= 2
    /\ \A r \in R2Main :
          /\ r2calls[r].op = "fetch"
             => /\ Sent(r2calls[r].log, "HeadObject") <= 1
                /\ Sent(r2calls[r].log, "GetObject") <= 1
                /\ Len(r2calls[r].log) <= 2
          /\ r2calls[r].op = "put"
             => /\ Sent(r2calls[r].log, "PutObject") <= 1
                /\ Len(r2calls[r].log) <= 1

\* the download of the provider call has delivered a chunk and then stalled: the
\* store call never completes, and the timer of the guard is cleared
DownloadStalled(r) ==
    /\ r2calls[r].pc = "pipeline" /\ r2calls[r].body = "stalled"
    /\ r2calls[r].timer = "cleared"

\* C32: a fetch on the orchestrator calls the local fetch, the remote fetch and the
\* local put at most once each and nothing else, a put the local put and the remote
\* put at most once each; a fetch on the object-storage provider sends at most one
\* HeadObject and one GetObject, a put at most one PutObject; and, every provider
\* call and store request completing, each call on the orchestrator and on the
\* provider returns, unless its download stalls for good after its first chunk
C32_NoRetryAndReturns ==
    /\ []AtMostOnce
    /\ \A c \in StackCallers :
          (calls[c].pc \notin {"idle", "done"})
             ~> (calls[c].pc = "done" \/ DownloadStalled(R2Of(c)))
    /\ \A r \in R2Main :
          (r2calls[r].pc \notin {"idle", "done"})
             ~> (r2calls[r].pc = "done" \/ DownloadStalled(r))

\* a fetch that missed locally, probed and downloaded the object and repopulated the
\* local tier has returned true, having made each of its calls once
C32_Witness ==
    /\ calls["c1"].op = "fetch" /\ calls["c1"].pc = "done" /\ calls["c1"].ret = "true"
    /\ calls["c1"].log = <<LocalFetch, RemoteFetch, LocalPut>>
    /\ r2calls["r1"].op = "fetch" /\ r2calls["r1"].pc = "done"
    /\ r2calls["r1"].log = <<"HeadObject", "GetObject">>

====
